---- MODULE Spec2Model ----
(***************************************************************************)
(* State-machine model of ns-thingy.ino: the loop() scheduler, the two     *)
(* Nightscout polls (fetchStatus, fetchData), connectWiFi and the render   *)
(* path (updateDisplay, updateLED).                                        *)
(*                                                                         *)
(* Time.  TLC integers are 32-bit signed, so 2^32 ms cannot be written.    *)
(* Every delay and interval of the source (500, 1000, 2000, 3000, 5000,    *)
(* 10000, 30000, 780000, 3600000 ms) and 2^32 itself are multiples of      *)
(* 4 ms, so time is counted in units of 4 ms: millis() wraps               *)
(* at 2^32 ms = 2^30 units exactly as the 32-bit counter does.             *)
(*                                                                         *)
(* Floats.  bg, delta and the raw JSON numbers are held in tenths          *)
(* (1200 is 120.0, 39 is 3.9).                                             *)
(*                                                                         *)
(* Strings that the code compares character by character (trend, units)   *)
(* are sequences of one-character strings.                                 *)
(***************************************************************************)
EXTENDS Integers, Sequences, FiniteSets, TLC

VARIABLES
    now,                    \* real time since boot, in units of 4 ms
    pc,                     \* position of the program
    ticks,                  \* loop() iterations started so far
    wifi,                   \* WiFi.status() == WL_CONNECTED
    wifiBegun,              \* WiFi.begin() was called (the radio reconnects by itself)
    wifiSSID, useLed,       \* configuration
    bootResult,             \* how setup() ended
    retries,                \* local of connectWiFi()
    lowUrgent, lowWarning, highWarning, highUrgent,
    lastDataFetchTime, lastStatusFetchTime, lastDisplayUpdateTime,
    lastUpdate, lastTimestamp,
    bg, delta, trend,
    currentTime, dataFetchFailed, statusFetchFailed,   \* locals of loop()
    statusResp, dataResp,   \* HTTP responses received in the running tick
    atEntry,                \* the timers and the connection when the tick began
    calls,                  \* the functions the running tick has called, in order
    screen,                 \* last frame pushed to the display
    led,                    \* last colour written to the pixel, "none" before any write
    scenario                \* what the server, the clock and the network may do

thresholds == <<lowUrgent, lowWarning, highWarning, highUrgent>>
reading    == <<bg, delta, trend, lastTimestamp, lastUpdate>>
timers     == <<lastDataFetchTime, lastStatusFetchTime, lastDisplayUpdateTime>>
config     == <<wifiSSID, useLed, bootResult>>
locals     == <<currentTime, dataFetchFailed, statusFetchFailed, retries>>
tickLog    == <<statusResp, dataResp, atEntry, calls>>
vars == <<now, pc, ticks, wifi, wifiBegun, config, thresholds, timers,
          lastUpdate, lastTimestamp, bg, delta, trend, locals, tickLog,
          screen, led, scenario>>

\* ------------------------------------------------------------------ bounds
MaxTicks == 3

\* -------------------------------------------------------------------- time
\* milliseconds to model time units (4 ms each)
Ms(ms) == ms \div 4

\* unsigned long is 32 bits on the ESP32: 2^32 ms = 2^30 units
Pow32 == 2^30

DATA_FETCH_INTERVAL_MS     == Ms(30 * 1000)
STATUS_FETCH_INTERVAL_MS   == Ms(60 * 60 * 1000)
DISPLAY_UPDATE_INTERVAL_MS == Ms(10 * 1000)
STALE_DATA_THRESHOLD_MS    == Ms(13 * 60 * 1000)

\* millis(): the 32-bit millisecond counter
millis(t) == t % Pow32

\* (a - b) >= k for a, b < 2^32 held in unsigned 64-bit arithmetic: when a < b
\* the difference wraps to 2^64 - (b - a) >= 2^64 - 2^32, above every interval.
ElapsedAtLeast(a, b, k) == IF a >= b THEN a - b >= k ELSE TRUE

\* (a - b) > k, same arithmetic
ElapsedMoreThan(a, b, k) == IF a >= b THEN a - b > k ELSE TRUE

\* ---------------------------------------------------------------- strings
Upper == <<"A","B","C","D","E","F","G","H","I","J","K","L","M",
           "N","O","P","Q","R","S","T","U","V","W","X","Y","Z">>
Lower == <<"a","b","c","d","e","f","g","h","i","j","k","l","m",
           "n","o","p","q","r","s","t","u","v","w","x","y","z">>

tolower(c) ==
    IF \E i \in 1..26 : Upper[i] = c
    THEN Lower[CHOOSE i \in 1..26 : Upper[i] = c]
    ELSE c

\* String::equalsIgnoreCase
equalsIgnoreCase(a, b) ==
    /\ Len(a) = Len(b)
    /\ \A i \in 1..Len(a) : tolower(a[i]) = tolower(b[i])

\* String::startsWith (case-sensitive)
startsWith(s, p) ==
    /\ Len(s) >= Len(p)
    /\ \A i \in 1..Len(p) : s[i] = p[i]

EmptyStr == << >>
S_mmol   == <<"m","m","o","l">>
S_mmolL  == <<"m","m","o","l","/","L">>
S_MMOLL  == <<"M","M","O","L","/","L">>
S_mgdl   == <<"m","g","/","d","l">>
S_Flat         == <<"F","l","a","t">>
S_DoubleUp     == <<"D","o","u","b","l","e","U","p">>
S_SingleUp     == <<"S","i","n","g","l","e","U","p">>
S_FortyFiveUp  == <<"F","o","r","t","y","F","i","v","e","U","p">>
S_FortyFiveDown == <<"F","o","r","t","y","F","i","v","e","D","o","w","n">>
S_SingleDown   == <<"S","i","n","g","l","e","D","o","w","n">>
S_DoubleDown   == <<"D","o","u","b","l","e","D","o","w","n">>
S_doubledown   == <<"d","o","u","b","l","e","d","o","w","n">>
S_NONE         == <<"N","O","N","E">>
S_Double       == <<"D","o","u","b","l","e">>

\* ---------------------------------------------------- HTTP responses (inputs)
\* A status.json response: kind is "http_error", "parse_error" or "ok"; an "ok"
\* document has settings.thresholds or not, the keys it carries (raw JSON
\* numbers in tenths) and settings.units.  "none" and "not_connected" mark
\* that no request was made.
ThresholdKeys == {"bgHigh", "bgTargetTop", "bgTargetBottom", "bgLow"}

Keys4(high, top, bottom, low) ==
    [k \in ThresholdKeys |->
        CASE k = "bgHigh" -> high
          [] k = "bgTargetTop" -> top
          [] k = "bgTargetBottom" -> bottom
          [] k = "bgLow" -> low]

\* present: the keys settings.thresholds carries; vals: their raw values
StatusDoc(kind, has, present, vals, units) ==
    [kind |-> kind, hasThresholds |-> has, present |-> present, vals |-> vals,
     units |-> units]

NoVals == Keys4(0, 0, 0, 0)
NoStatus == StatusDoc("none", FALSE, {}, NoVals, EmptyStr)
StatusNotConnected == StatusDoc("not_connected", FALSE, {}, NoVals, EmptyStr)

StatusFailures ==
    { StatusDoc("http_error", FALSE, {}, NoVals, EmptyStr),
      StatusDoc("parse_error", FALSE, {}, NoVals, EmptyStr) }

StatusPlain == StatusDoc("ok", TRUE, ThresholdKeys, Keys4(2500, 1700, 800, 600), S_mgdl)

AllStatusResponses ==
    StatusFailures \cup
    { StatusDoc("ok", FALSE, {}, NoVals, S_mgdl),
      StatusDoc("ok", TRUE, ThresholdKeys \ {"bgLow"},
                Keys4(2600, 1900, 800, 0), S_mgdl),
      StatusPlain,
      StatusDoc("ok", TRUE, ThresholdKeys, Keys4(139, 100, 39, 30), S_mmol),
      StatusDoc("ok", TRUE, ThresholdKeys, Keys4(140, 100, 40, 30), S_MMOLL) }

\* A properties.json response: kind is "http_error", "parse_error", "no_bgnow"
\* (bgnow missing or bgnow.sgvs empty) or "ok" with bgnow.mills,
\* bgnow.sgvs[0].mgdl, delta.mgdl (tenths) and bgnow.sgvs[0].direction.
DataDoc(kind, mills, mgdl, dl, direction) ==
    [kind |-> kind, mills |-> mills, mgdl |-> mgdl, delta |-> dl,
     direction |-> direction]

NoData == DataDoc("none", 0, 0, 0, EmptyStr)
DataNotConnected == DataDoc("not_connected", 0, 0, 0, EmptyStr)

DataFailures ==
    { DataDoc("http_error", 0, 0, 0, EmptyStr),
      DataDoc("parse_error", 0, 0, 0, EmptyStr),
      DataDoc("no_bgnow", 0, 0, 0, EmptyStr) }

DataPlain == DataDoc("ok", 1000, 1200, -20, S_Flat)

\* the reading that follows DataPlain
DataLater == DataDoc("ok", 2000, 1300, 10, S_SingleUp)

AllDataResponses ==
    DataFailures \cup
    { DataPlain,
      DataDoc("ok", 1000, 2500, 50, S_DoubleUp),
      DataDoc("ok", 2000, 250, 10, S_NONE),
      DataDoc("ok", 2000, 300, 0, S_SingleDown),
      DataDoc("ok", 3000, 305, -35, S_doubledown),
      DataDoc("ok", 0, 1100, 5, S_FortyFiveUp) }

\* time one HTTP GET takes
HttpTimes == { Ms(100) }

\* The runs explored are those of five scenarios, each letting one part of
\* the environment vary freely and holding the rest to a plain case:
\*   "status":  every status.json response, one properties.json response;
\*   "data":    every properties.json response, one status.json response;
\*   "clock":   every gap between ticks and the wrap of millis(), every
\*              request answered, with one of two readings;
\*   "network": the connection comes and goes, each request is answered
\*              plainly or fails;
\*   "stale":   a tick comes 13 minutes, to the millisecond, after a reading
\*              was stored, or 4 ms later; every request answered plainly.
Scenarios == {"status", "data", "clock", "network", "stale"}

StatusResponses ==
    CASE scenario = "status"  -> AllStatusResponses
      [] scenario = "data"    -> {StatusPlain}
      [] scenario = "clock"   -> {StatusPlain}
      [] scenario = "network" ->
            {StatusPlain, StatusDoc("http_error", FALSE, {}, NoVals, EmptyStr)}
      [] scenario = "stale"   -> {StatusPlain}

DataResponses ==
    CASE scenario = "status"  -> {DataPlain}
      [] scenario = "data"    -> AllDataResponses
      [] scenario = "clock"   -> {DataPlain, DataLater}
      [] scenario = "network" ->
            {DataPlain, DataDoc("http_error", 0, 0, 0, EmptyStr)}
      [] scenario = "stale"   -> {DataPlain}

\* time that may pass between two iterations of loop()
Gaps ==
    CASE scenario = "status"  -> { Ms(60 * 60 * 1000) }
      [] scenario = "data"    -> { Ms(30 * 1000), Ms(13 * 60 * 1000) }
      [] scenario = "clock"   -> { Ms(100), Ms(10 * 1000), Ms(30 * 1000),
                                   Ms(13 * 60 * 1000), Ms(60 * 60 * 1000) }
      [] scenario = "network" -> { Ms(100), Ms(30 * 1000) }
      [] scenario = "stale"   -> { Ms(13 * 60 * 1000 - 100),
                                   Ms(13 * 60 * 1000 - 96) }

\* the millisecond counter comes close to its wrap
ClockWraps == scenario = "clock"

\* the connection is lost and found again while the program runs
NetworkFaults == scenario = "network"

\* the radio may need some waits of connectWiFi() to join the network
SlowJoin == scenario \in {"status", "stale"}

\* a moment 240 ms before the 32-bit millisecond counter wraps: a tick that
\* begins here and polls twice stores its reading 40 ms before the wrap
WrapEdge == Pow32 - Ms(240)

\* ------------------------------------------------------------- fetchStatus
\* JsonVariant::as<int>() of a JSON number: the fraction is cut off
asInt(tenths) ==
    IF tenths >= 0 THEN tenths \div 10 ELSE -((-tenths) \div 10)

\* round(x) of a double given in tenths: to nearest, halves away from zero
round(tenths) ==
    IF tenths >= 0 THEN (tenths + 5) \div 10 ELSE -((5 - tenths) \div 10)

\* the raw value a threshold is stored from (lines 244-247)
StoredRaw(raw) == asInt(raw)

\* round(v * 18.0) for the int v already stored (lines 252-255)
ToMgdl(v) == round(v * 180)

IsMmol(units) ==
    equalsIgnoreCase(units, S_mmol) \/ equalsIgnoreCase(units, S_mmolL)

\* faulty variant of HasAllThresholds: the four containsKey tests joined by ||
HasSomeThresholds(r) ==
    /\ r.kind = "ok"
    /\ r.hasThresholds
    /\ r.present # {}

\* the response carries settings.thresholds with all four keys (lines 238-242)
HasAllThresholds(r) ==
    /\ r.kind = "ok"
    /\ r.hasThresholds
    /\ ThresholdKeys \subseteq r.present

\* the value of one threshold after fetchStatus has handled response r
ThresholdAfter(r, key, old) ==
    IF HasAllThresholds(r)
    THEN IF IsMmol(r.units)
         THEN ToMgdl(StoredRaw(r.vals[key]))
         ELSE StoredRaw(r.vals[key])
    ELSE old

\* fetchStatus() returns true
StatusOK(r) == r.kind = "ok"

\* fetchStatus() shows an error message for 2000 ms
StatusShowsError(r) == r.kind \in {"http_error", "parse_error"}

\* ---------------------------------------------------------------- fetchData
\* the mgdl value is accepted (line 319): bg > 30.0
Plausible(mgdl) == mgdl > 300

\* faulty variant of IsNewTimestamp: the comparison with lastTimestamp left out
AnyTimestamp(r, last) == r.kind = "ok"

\* the response is read into bg, delta and trend (lines 314-318)
IsNewTimestamp(r, last) == r.kind = "ok" /\ r.mills # last

\* <<bg, delta, trend, lastTimestamp, lastUpdate>> after fetchData has handled
\* response r at millis() = t
ReadingAfter(r, old, t) ==
    IF IsNewTimestamp(r, old[4])
    THEN IF Plausible(r.mgdl)
         THEN <<r.mgdl, r.delta, r.direction, r.mills, t>>
         ELSE <<r.mgdl, r.delta, r.direction, old[4], old[5]>>
    ELSE old

\* fetchData() returns true
DataOK(r) == r.kind = "ok"

\* fetchData() shows an error message for 2000 ms
DataShowsError(r) == r.kind \in {"http_error", "parse_error", "no_bgnow"}

\* ---------------------------------------------------------------- presenter
getTrendArrowRotation(t) ==
    IF equalsIgnoreCase(t, S_DoubleUp) THEN 0
    ELSE IF equalsIgnoreCase(t, S_SingleUp) THEN 0
    ELSE IF equalsIgnoreCase(t, S_FortyFiveUp) THEN 45
    ELSE IF equalsIgnoreCase(t, S_Flat) THEN 90
    ELSE IF equalsIgnoreCase(t, S_FortyFiveDown) THEN 135
    ELSE IF equalsIgnoreCase(t, S_SingleDown) THEN 180
    ELSE IF equalsIgnoreCase(t, S_DoubleDown) THEN 180
    ELSE -1

isDoubleTrendArrow(t) == startsWith(t, S_Double)

\* faulty variant of isStale: >= in place of >
isStaleAtLeast(t, last) == ElapsedAtLeast(t, last, STALE_DATA_THRESHOLD_MS)

\* updateBGValue: bool isStale = (millis() - lastUpdate) > STALE_DATA_THRESHOLD_MS
isStale(t, last) == ElapsedMoreThan(t, last, STALE_DATA_THRESHOLD_MS)

\* the same test with both times in milliseconds
isStaleMs(t, last) == ElapsedMoreThan(t, last, 13 * 60 * 1000)

\* a frame pushed to the display
Frame(kind, stale, arrow, double) ==
    [kind |-> kind, stale |-> stale, arrow |-> arrow, double |-> double]

Blank        == Frame("blank", FALSE, -1, FALSE)
MessageFrame == Frame("message", FALSE, -1, FALSE)
WaitingFrame == Frame("waiting", FALSE, -1, FALSE)

\* the frame updateDisplay() draws at millis() = t
DisplayFrame(t) ==
    IF lastTimestamp = 0
    THEN WaitingFrame
    ELSE Frame("reading", isStale(t, lastUpdate),
               getTrendArrowRotation(trend),
               getTrendArrowRotation(trend) >= 0 /\ isDoubleTrendArrow(trend))

\* updateDisplay() blocks 1000 ms in showMessage when it shows the waiting text
DisplayDelay == IF lastTimestamp = 0 THEN Ms(1000) ELSE 0

\* faulty variant of LEDColor: a value equal to a bound counts as outside it
LEDColorInclusive ==
    IF bg <= lowUrgent * 10 \/ bg >= highUrgent * 10 THEN "red"
    ELSE IF bg <= lowWarning * 10 \/ bg >= highWarning * 10 THEN "yellow"
    ELSE "green"

\* the colour updateLED() picks (bg in tenths, thresholds in mg/dL)
LEDColor ==
    IF bg < lowUrgent * 10 \/ bg > highUrgent * 10 THEN "red"
    ELSE IF bg < lowWarning * 10 \/ bg > highWarning * 10 THEN "yellow"
    ELSE "green"

\* faulty variant of setLEDColor: the test of use_led left out
setLEDColorAlways(colour) == led' = colour

\* setLEDColor: the pixel is written only when use_led is set
setLEDColor(colour) == led' = IF useLed THEN colour ELSE led

\* faulty variant of updateLED: the early return at lastTimestamp == 0 left out
updateLEDUnguarded == setLEDColor(LEDColor)

updateLED ==
    IF lastTimestamp = 0 THEN UNCHANGED led ELSE setLEDColor(LEDColor)

\* ---------------------------------------------------------------- scheduler
\* line 119
StatusDue ==
    \/ ElapsedAtLeast(currentTime, lastStatusFetchTime, STATUS_FETCH_INTERVAL_MS)
    \/ lastStatusFetchTime = 0

\* line 126
DataDue ==
    \/ ElapsedAtLeast(currentTime, lastDataFetchTime, DATA_FETCH_INTERVAL_MS)
    \/ lastDataFetchTime = 0

\* line 133, the timer part
DisplayDue ==
    ElapsedAtLeast(currentTime, lastDisplayUpdateTime, DISPLAY_UPDATE_INTERVAL_MS)

\* line 133
RenderCondition == DisplayDue /\ ~dataFetchFailed /\ ~statusFetchFailed

\* lines 113-114: the timers after the polls of the tick that connected
TimerAfterReconnect(old, failed) == currentTime

\* lines 121-123, 128-130: a timer after its poll on a connected tick
TimerAfterPoll(old, failed) == IF failed THEN old ELSE currentTime

\* --------------------------------------------------------------------- Init
NoEntry == [data |-> 0, status |-> 0, display |-> 0, wifi |-> FALSE]

Init ==
    /\ scenario \in Scenarios
    /\ now = 0
    /\ pc = "boot"
    /\ ticks = 0
    /\ wifi = FALSE
    /\ wifiBegun = FALSE
    /\ wifiSSID = ""
    /\ useLed = FALSE
    /\ bootResult = "booting"
    /\ retries = 0
    /\ lowUrgent = 55
    /\ lowWarning = 70
    /\ highWarning = 180
    /\ highUrgent = 240
    /\ lastDataFetchTime = 0
    /\ lastStatusFetchTime = 0
    /\ lastDisplayUpdateTime = 0
    /\ lastUpdate = 0
    /\ lastTimestamp = 0
    /\ bg = 0
    /\ delta = 0
    /\ trend = EmptyStr
    /\ currentTime = 0
    /\ dataFetchFailed = FALSE
    /\ statusFetchFailed = FALSE
    /\ statusResp = NoStatus
    /\ dataResp = NoData
    /\ atEntry = NoEntry
    /\ calls = << >>
    /\ screen = Blank
    /\ led = "none"

\* showMessage(line1, line2, delay_ms): draws the message and blocks
showMessage(delay) == screen' = MessageFrame /\ now' = now + delay

\* ------------------------------------------------------------------ setup()
\* how setup() can end: the SD card fails, config.json cannot be opened,
\* config.json does not parse, or the configuration is loaded
BootResults == {"sd_error", "config_open_failed", "config_parse_failed", "loaded"}

\* readConfig() returns false
ConfigFailed(result) == result \in {"config_open_failed", "config_parse_failed"}

\* faulty variant of AfterReadConfig: the while(1) after a failed readConfig() left out
AfterReadConfigGoesOn(result) ==
    IF result = "sd_error" THEN "halted" ELSE "ready"

\* lines 82-98: an SD failure and a failed readConfig() end in while(1);
\* otherwise setup() returns and loop() is entered at once
AfterReadConfig(result) ==
    IF result = "loaded" THEN "ready" ELSE "halted"

Setup ==
    /\ UNCHANGED scenario
    /\ pc = "boot"
    /\ \E result \in BootResults :
         /\ bootResult' = result
         /\ pc' = AfterReadConfig(result)
         /\ IF result = "sd_error"
            THEN /\ showMessage(Ms(5000))
                 /\ UNCHANGED <<wifiSSID, useLed>>
            ELSE IF ConfigFailed(result)
            THEN /\ showMessage(Ms(500) + Ms(3000))
                 /\ UNCHANGED <<wifiSSID, useLed>>
            ELSE /\ showMessage(Ms(500))
                 /\ wifiSSID' \in {"", "home"}
                 /\ useLed' \in BOOLEAN
    /\ UNCHANGED <<ticks, wifi, wifiBegun, thresholds, timers, reading, locals,
                   tickLog, led>>

\* ------------------------------------------------------------- environment
\* Time passes between two iterations of loop().
Elapse ==
    /\ UNCHANGED scenario
    /\ pc = "idle"
    /\ ticks < MaxTicks
    /\ \E d \in Gaps : now' = now + d
    /\ pc' = "ready"
    /\ UNCHANGED <<ticks, wifi, wifiBegun, config, thresholds, timers, reading,
                   locals, tickLog, screen, led>>

\* The device has run until shortly before the millisecond counter wraps.
ElapseToWrap ==
    /\ UNCHANGED scenario
    /\ pc = "idle"
    /\ ticks < MaxTicks
    /\ ClockWraps
    /\ now < WrapEdge
    /\ now' = WrapEdge
    /\ pc' = "ready"
    /\ UNCHANGED <<ticks, wifi, wifiBegun, config, thresholds, timers, reading,
                   locals, tickLog, screen, led>>

\* The access point comes back and the radio, once started, reconnects.
WiFiUp ==
    /\ UNCHANGED scenario
    /\ pc = "idle"
    /\ NetworkFaults
    /\ wifiBegun
    /\ ~wifi
    /\ wifi' = TRUE
    /\ UNCHANGED <<now, pc, ticks, wifiBegun, config, thresholds, timers,
                   reading, locals, tickLog, screen, led>>

\* The connection is lost, between ticks or in the middle of one.
WiFiDown ==
    /\ UNCHANGED scenario
    /\ pc \in {"idle", "data", "rdata"}
    /\ NetworkFaults
    /\ wifi
    /\ wifi' = FALSE
    /\ UNCHANGED <<now, pc, ticks, wifiBegun, config, thresholds, timers,
                   reading, locals, tickLog, screen, led>>

\* ------------------------------------------------------------------- loop()
\* Entry of loop(): currentTime = millis().  The two flags are declared without
\* an initial value: what they hold is drawn where a poll is skipped and leaves
\* its flag unassigned (StatusPoll, DataPoll), before line 133 reads it.
LoopBegin ==
    /\ UNCHANGED scenario
    /\ pc = "ready"
    /\ ticks' = ticks + 1
    /\ currentTime' = millis(now)
    /\ atEntry' = [data |-> lastDataFetchTime, status |-> lastStatusFetchTime,
                   display |-> lastDisplayUpdateTime, wifi |-> wifi]
    /\ pc' = IF wifi THEN "status" ELSE "connect"
    /\ UNCHANGED <<now, wifi, wifiBegun, config, thresholds, timers, reading,
                   dataFetchFailed, statusFetchFailed, retries, statusResp,
                   dataResp, calls, screen, led>>

\* the while loop of connectWiFi gives up after 30 waits
MaxRetries == 30

\* the numbers of waits after which the radio may have joined the network:
\* the first wait, or the last one the loop makes
JoinPoints == IF SlowJoin THEN {1, MaxRetries} ELSE {}

\* faulty variant of AfterConnect: the forced polls and the return left out, so the
\* tick goes on into the timed polls and the render
AfterConnectFallsThrough(connected) == IF connected THEN "status" ELSE "return"

\* lines 110-116: after connectWiFi() loop() runs both polls if the connection
\* is up, and returns
AfterConnect(connected) == IF connected THEN "rstatus" ELSE "return"

\* faulty variant of KeepWaiting: the test of the retry counter left out
KeepWaitingForever(connected, n) == ~connected

\* line 149: the condition of the while loop of connectWiFi()
KeepWaiting(connected, n) == ~connected /\ n < MaxRetries

\* connectWiFi(), lines 141-148, called by loop() when WiFi.status() is not
\* WL_CONNECTED: the LED goes blue, the message is shown for 1000 ms and, with
\* an SSID, WiFi.begin() is called
ConnectBegin ==
    /\ UNCHANGED scenario
    /\ pc = "connect"
    /\ setLEDColor("blue")
    /\ showMessage(Ms(1000))
    /\ retries' = 0
    /\ IF wifiSSID # ""
       THEN /\ wifiBegun' = TRUE
            /\ wifi' \in BOOLEAN
            /\ pc' = "wait"
       ELSE /\ UNCHANGED <<wifi, wifiBegun>>
            /\ pc' = "nossid"
    /\ UNCHANGED <<ticks, config, thresholds, timers, reading, currentTime,
                   dataFetchFailed, statusFetchFailed, tickLog>>

\* lines 149-153: one turn of the while loop; the radio may join meanwhile
ConnectWait ==
    /\ UNCHANGED scenario
    /\ pc = "wait"
    /\ KeepWaiting(wifi, retries)
    /\ now' = now + Ms(500)
    /\ retries' = retries + 1
    /\ wifi' \in (IF retries + 1 \in JoinPoints THEN BOOLEAN ELSE {FALSE})
    /\ UNCHANGED <<pc, ticks, wifiBegun, config, thresholds, timers, reading,
                   currentTime, dataFetchFailed, statusFetchFailed, tickLog,
                   screen, led>>

\* lines 155-167: the closing message and the LED off; connectWiFi() returns
\* and loop() tests the connection (line 110)
ConnectEnd ==
    /\ UNCHANGED scenario
    /\ \/ pc = "nossid"
       \/ pc = "wait" /\ ~KeepWaiting(wifi, retries)
    /\ showMessage(IF pc = "wait" /\ wifi THEN Ms(2000) ELSE Ms(5000))
    /\ setLEDColor("off")
    /\ calls' = Append(calls, IF wifi THEN "connectWiFi:connected"
                                      ELSE "connectWiFi:failed")
    /\ retries' = 0
    /\ pc' = AfterConnect(wifi)
    /\ UNCHANGED <<ticks, wifi, wifiBegun, config, thresholds, timers, reading,
                   currentTime, dataFetchFailed, statusFetchFailed,
                   statusResp, dataResp, atEntry>>

\* the responses a request can meet
StatusInputs == IF wifi THEN StatusResponses ELSE {StatusNotConnected}
DataInputs   == IF wifi THEN DataResponses ELSE {DataNotConnected}

\* fetchStatus() meeting response r
fetchStatus(r) ==
    /\ calls' = Append(calls, "fetchStatus")
    /\ statusResp' = r
    /\ lowUrgent'   = ThresholdAfter(r, "bgLow", lowUrgent)
    /\ lowWarning'  = ThresholdAfter(r, "bgTargetBottom", lowWarning)
    /\ highWarning' = ThresholdAfter(r, "bgTargetTop", highWarning)
    /\ highUrgent'  = ThresholdAfter(r, "bgHigh", highUrgent)
    /\ IF r.kind = "not_connected"
       THEN UNCHANGED <<now, screen>>
       ELSE \E h \in HttpTimes :
              IF StatusShowsError(r)
              THEN showMessage(h + Ms(2000))
              ELSE now' = now + h /\ UNCHANGED screen

\* fetchData() meeting response r
fetchData(r) ==
    /\ calls' = Append(calls, "fetchData")
    /\ dataResp' = r
    /\ IF r.kind = "not_connected"
       THEN UNCHANGED <<now, screen, reading>>
       ELSE \E h \in HttpTimes :
              /\ LET after == ReadingAfter(r, reading, millis(now + h))
                 IN  /\ bg' = after[1]
                     /\ delta' = after[2]
                     /\ trend' = after[3]
                     /\ lastTimestamp' = after[4]
                     /\ lastUpdate' = after[5]
              /\ IF DataShowsError(r)
                 THEN showMessage(h + Ms(2000))
                 ELSE now' = now + h /\ UNCHANGED screen

\* line 111: the status poll of the tick that connected
ReconnectStatus ==
    /\ UNCHANGED scenario
    /\ pc = "rstatus"
    /\ \E r \in StatusInputs :
         /\ fetchStatus(r)
         /\ statusFetchFailed' = ~StatusOK(r)
    /\ pc' = "rdata"
    /\ UNCHANGED <<ticks, wifi, wifiBegun, config, timers, reading, currentTime,
                   dataFetchFailed, dataResp, atEntry, led, retries>>

\* lines 112-116: the data poll of the tick that connected, then both timers
ReconnectData ==
    /\ UNCHANGED scenario
    /\ pc = "rdata"
    /\ \E r \in DataInputs :
         /\ fetchData(r)
         /\ dataFetchFailed' = ~DataOK(r)
         /\ lastStatusFetchTime' =
                TimerAfterReconnect(lastStatusFetchTime, statusFetchFailed)
         /\ lastDataFetchTime' =
                TimerAfterReconnect(lastDataFetchTime, ~DataOK(r))
    /\ pc' = "return"
    /\ UNCHANGED <<ticks, wifi, wifiBegun, config, thresholds,
                   lastDisplayUpdateTime, currentTime, statusFetchFailed,
                   statusResp, atEntry, led, retries>>

\* lines 119-124
StatusPoll ==
    /\ UNCHANGED scenario
    /\ pc = "status"
    /\ IF StatusDue
       THEN \E r \in StatusInputs :
              /\ fetchStatus(r)
              /\ statusFetchFailed' = ~StatusOK(r)
              /\ lastStatusFetchTime' =
                     TimerAfterPoll(lastStatusFetchTime, ~StatusOK(r))
       ELSE /\ statusFetchFailed' \in BOOLEAN
            /\ UNCHANGED <<now, screen, thresholds, statusResp,
                           lastStatusFetchTime, calls>>
    /\ pc' = "data"
    /\ UNCHANGED <<ticks, wifi, wifiBegun, config, lastDataFetchTime,
                   lastDisplayUpdateTime, reading, currentTime, dataFetchFailed,
                   dataResp, atEntry, led, retries>>

\* lines 126-131
DataPoll ==
    /\ UNCHANGED scenario
    /\ pc = "data"
    /\ IF DataDue
       THEN \E r \in DataInputs :
              /\ fetchData(r)
              /\ dataFetchFailed' = ~DataOK(r)
              /\ lastDataFetchTime' =
                     TimerAfterPoll(lastDataFetchTime, ~DataOK(r))
       ELSE /\ dataFetchFailed' \in BOOLEAN
            /\ UNCHANGED <<now, screen, reading, dataResp,
                           lastDataFetchTime, calls>>
    /\ pc' = "render"
    /\ UNCHANGED <<ticks, wifi, wifiBegun, config, thresholds,
                   lastStatusFetchTime, lastDisplayUpdateTime, currentTime,
                   statusFetchFailed, statusResp, atEntry, led, retries>>

\* lines 133-137: updateDisplay(), updateLED(), lastDisplayUpdateTime
Render ==
    /\ UNCHANGED scenario
    /\ pc = "render"
    /\ IF RenderCondition
       THEN /\ screen' = DisplayFrame(millis(now))
            /\ now' = now + DisplayDelay
            /\ updateLED
            /\ lastDisplayUpdateTime' = currentTime
            /\ calls' = calls \o <<"updateDisplay", "updateLED">>
       ELSE UNCHANGED <<screen, now, led, lastDisplayUpdateTime, calls>>
    /\ pc' = "return"
    /\ UNCHANGED <<ticks, wifi, wifiBegun, config, thresholds,
                   lastDataFetchTime, lastStatusFetchTime, reading, locals,
                   statusResp, dataResp, atEntry>>

\* loop() returns; its locals are gone
LoopReturn ==
    /\ UNCHANGED scenario
    /\ pc = "return"
    /\ pc' = "idle"
    /\ currentTime' = 0
    /\ dataFetchFailed' = FALSE
    /\ statusFetchFailed' = FALSE
    /\ retries' = 0
    /\ statusResp' = NoStatus
    /\ dataResp' = NoData
    /\ atEntry' = NoEntry
    /\ calls' = << >>
    /\ UNCHANGED <<now, ticks, wifi, wifiBegun, config, thresholds, timers,
                   reading, screen, led>>

Next ==
    \/ Setup
    \/ Elapse
    \/ ElapseToWrap
    \/ WiFiUp
    \/ WiFiDown
    \/ LoopBegin
    \/ ConnectBegin
    \/ ConnectWait
    \/ ConnectEnd
    \/ ReconnectStatus
    \/ ReconnectData
    \/ StatusPoll
    \/ DataPoll
    \/ Render
    \/ LoopReturn

Spec == Init /\ [][Next]_vars

\* The steps of the program itself.  The processor runs setup() and then
\* loop() without end, delay() and the HTTP client's requests return, so a
\* step of the program that can be taken is taken.
ProgramStep ==
    \/ Setup
    \/ LoopBegin
    \/ ConnectBegin
    \/ ConnectWait
    \/ ConnectEnd
    \/ ReconnectStatus
    \/ ReconnectData
    \/ StatusPoll
    \/ DataPoll
    \/ Render
    \/ LoopReturn

FairSpec == Init /\ [][Next]_vars /\ WF_vars(ProgramStep)

\* --------------------------------------------------- the device left running
\* Runs without end.  The program reads the clock through millis() alone, so
\* whole rounds of the 32-bit counter make no difference to it: after the
\* MaxTicks iterations followed one by one the device runs on until the
\* counter is again 240 ms short of its wrap, with nothing stored in between,
\* and loop() is entered there; the rounds completed are not counted, and
\* ticks stays at its bound.
RunOn ==
    /\ UNCHANGED scenario
    /\ pc = "idle"
    /\ ticks = MaxTicks
    /\ now' = WrapEdge
    /\ ticks' = MaxTicks - 1
    /\ pc' = "ready"
    /\ UNCHANGED <<wifi, wifiBegun, config, thresholds, timers, reading,
                   locals, tickLog, screen, led>>

\* the device is on a network that comes and goes, with a server that answers
\* or fails
LiveInit == Init /\ scenario = "network"

LiveNext ==
    \/ Setup
    \/ Elapse
    \/ RunOn
    \/ WiFiUp
    \/ WiFiDown
    \/ LoopBegin
    \/ ConnectBegin
    \/ ConnectWait
    \/ ConnectEnd
    \/ ReconnectStatus
    \/ ReconnectData
    \/ StatusPoll
    \/ DataPoll
    \/ Render
    \/ LoopReturn

\* loop() is entered again: the loop keeps ticking
NextTick == Elapse \/ RunOn

LiveSpec ==
    /\ LiveInit
    /\ [][LiveNext]_vars
    /\ WF_vars(ProgramStep)
    /\ WF_vars(NextTick)

\* ===================================================================== claims
\* what the running tick has done, read off its log
StatusAttempted == statusResp.kind # "none"
DataAttempted   == dataResp.kind # "none"
StatusFailed    == StatusAttempted /\ statusResp.kind # "ok"
DataFailed      == DataAttempted /\ dataResp.kind # "ok"
Called(f)       == \E i \in 1..Len(calls) : calls[i] = f
Rendered        == Called("updateDisplay")
TickDone        == pc = "return"

\* this step is a data poll, this step is a status poll
DataPollStep   == dataResp.kind = "none" /\ dataResp'.kind # "none"
StatusPollStep == statusResp.kind = "none" /\ statusResp'.kind # "none"

\* time elapsed from millis() = b to millis() = a, less than one wrap apart
Elapsed32(a, b) == (a - b + Pow32) % Pow32

\* C1: a data poll whose response has a new bgnow.mills and an mgdl value
\* <= 30 leaves bg, delta, trend, lastTimestamp and lastUpdate as they were.
C1_InvalidValueLeavesReading ==
    [][ (/\ DataPollStep
         /\ dataResp'.kind = "ok"
         /\ dataResp'.mills # lastTimestamp
         /\ dataResp'.mgdl <= 300)
        => reading' = reading ]_vars

\* C2: after a tick in which a poll was attempted and failed, that poll's
\* timer has the value it had when the tick began, on every tick, also the one
\* that established the connection.
C2_FailedPollKeepsTimer ==
    TickDone =>
        /\ StatusFailed => lastStatusFetchTime = atEntry.status
        /\ DataFailed => lastDataFetchTime = atEntry.data

\* C3: a connected tick on which neither poll is due and 10 seconds have
\* passed since lastDisplayUpdateTime renders and sets lastDisplayUpdateTime
\* to the tick's time.
C3_SkippedPollsDoNotBlockRender ==
    (/\ TickDone
     /\ atEntry.wifi
     /\ ~StatusAttempted
     /\ ~DataAttempted
     /\ currentTime >= atEntry.display
     /\ currentTime - atEntry.display >= DISPLAY_UPDATE_INTERVAL_MS)
    => /\ Rendered
       /\ Called("updateLED")
       /\ lastDisplayUpdateTime = currentTime

\* C4: after a status poll whose response carries all four keys, each stored
\* threshold is round(raw * 18.0) when settings.units is "mmol" or "mmol/L"
\* in any case, and the raw value otherwise.
C4_Expected(raw, units) ==
    IF IsMmol(units) THEN round(raw * 18) * 10 ELSE raw

C4_ThresholdsConverted ==
    (/\ statusResp.kind = "ok"
     /\ statusResp.hasThresholds
     /\ statusResp.present = ThresholdKeys)
    => /\ highUrgent * 10 = C4_Expected(statusResp.vals["bgHigh"], statusResp.units)
       /\ highWarning * 10 = C4_Expected(statusResp.vals["bgTargetTop"], statusResp.units)
       /\ lowWarning * 10 = C4_Expected(statusResp.vals["bgTargetBottom"], statusResp.units)
       /\ lowUrgent * 10 = C4_Expected(statusResp.vals["bgLow"], statusResp.units)

\* C5: a data poll whose response has bgnow.mills equal to lastTimestamp
\* leaves bg, delta, trend, lastTimestamp and lastUpdate as they were,
\* whatever value, delta and direction the response carries.
C5_SameMillsLeavesReading ==
    [][ (/\ DataPollStep
         /\ dataResp'.kind = "ok"
         /\ dataResp'.mills = lastTimestamp)
        => reading' = reading ]_vars

\* C5 witness: a poll resent the stored mills with another value, succeeded,
\* and the render of the same tick drew the old reading as stale.
C5_Witness ==
    /\ TickDone
    /\ dataResp.kind = "ok"
    /\ lastTimestamp # 0
    /\ dataResp.mills = lastTimestamp
    /\ dataResp.mgdl # bg
    /\ Rendered
    /\ screen.kind = "reading"
    /\ screen.stale

\* C6: a timer that still holds 0 makes its action due on the tick that
\* evaluates it, however little time has passed since boot.
C6_ZeroTimerIsDue ==
    /\ (pc = "status" /\ lastStatusFetchTime = 0) => StatusDue
    /\ (pc = "data" /\ lastDataFetchTime = 0) => DataDue
    /\ (pc = "render" /\ lastDisplayUpdateTime = 0) => DisplayDue

C8_RenderOnlyWhenDueAndNoFailure ==
    (TickDone /\ Rendered)
    => /\ Elapsed32(currentTime, atEntry.display) >= DISPLAY_UPDATE_INTERVAL_MS
       /\ ~StatusFailed
       /\ ~DataFailed

\* C9: a tick that starts disconnected calls connectWiFi; if that ends
\* connected the tick calls fetchStatus and then fetchData once each, whatever
\* the timers hold, and nothing else; if it ends disconnected the tick calls
\* nothing else and no timer changes.
C9_DisconnectedTick ==
    (TickDone /\ ~atEntry.wifi)
    => \/ /\ calls = <<"connectWiFi:connected", "fetchStatus", "fetchData">>
          /\ lastDisplayUpdateTime = atEntry.display
       \/ /\ calls = <<"connectWiFi:failed">>
          /\ lastDataFetchTime = atEntry.data
          /\ lastStatusFetchTime = atEntry.status
          /\ lastDisplayUpdateTime = atEntry.display

\* C9 witness: the connection came back on a tick on which neither poll was
\* due by its timer, and both polls ran.
C9_Witness ==
    /\ TickDone
    /\ calls = <<"connectWiFi:connected", "fetchStatus", "fetchData">>
    /\ atEntry.status # 0
    /\ atEntry.data # 0
    /\ currentTime >= atEntry.status
    /\ currentTime - atEntry.status < STATUS_FETCH_INTERVAL_MS
    /\ currentTime >= atEntry.data
    /\ currentTime - atEntry.data < DATA_FETCH_INTERVAL_MS

\* C10: a data poll that returns HTTP OK with a non-empty bgnow.sgvs, a new
\* bgnow.mills and an mgdl value > 30 stores the response's mgdl, delta,
\* direction and mills and the local time of acceptance; no other step
\* changes the stored reading.
C10_ReadingOverwrittenOnlyOnAcceptance ==
    [][ IF /\ DataPollStep
           /\ dataResp'.kind = "ok"
           /\ dataResp'.mills # lastTimestamp
           /\ dataResp'.mgdl > 300
        THEN reading' = <<dataResp'.mgdl, dataResp'.delta, dataResp'.direction,
                          dataResp'.mills, millis(now')>>
        ELSE reading' = reading ]_vars

\* the tick has drawn the stored reading; updateDisplay() returned at millis(now)
DrewReading == TickDone /\ Rendered /\ screen.kind = "reading"

\* C11: a reading drawn at a local time t >= lastUpdate is drawn stale (grey,
\* struck through) exactly when t - lastUpdate > 780000 ms: at 780000 ms it is
\* not stale, at 780001 ms it is.
C11_StaleExactlyAfterThreshold ==
    /\ (DrewReading /\ millis(now) >= lastUpdate)
         => (screen.stale <=> millis(now) - lastUpdate > Ms(780000))
    /\ \A last \in {0, 1, 3700, 3701} :
         /\ ~isStaleMs(last + 780000, last)
         /\ isStaleMs(last + 780001, last)
         /\ \A t \in last .. last + 4 : ~isStaleMs(t, last)

\* C11 witness: a reading drawn exactly 780000 ms after it was stored, not stale
C11_Witness ==
    /\ DrewReading
    /\ lastUpdate > 0
    /\ millis(now) - lastUpdate = Ms(780000)
    /\ ~screen.stale

\* a reading drawn 780004 ms after it was stored, stale
C11_JustStale ==
    /\ DrewReading
    /\ millis(now) - lastUpdate = Ms(780004)
    /\ screen.stale

\* the colour C12 names for the stored bg (tenths) and the stored thresholds
C12_Colour ==
    IF bg < lowUrgent * 10 THEN "red"
    ELSE IF bg > highUrgent * 10 THEN "red"
    ELSE IF bg < lowWarning * 10 THEN "yellow"
    ELSE IF bg > highWarning * 10 THEN "yellow"
    ELSE "green"

\* C12: after updateLED() has run with a stored reading and use_led set, the
\* pixel is red when bg < lowUrgent or bg > highUrgent, otherwise yellow when
\* bg < lowWarning or bg > highWarning, otherwise green, a value equal to a
\* bound counting as inside it; with use_led false nothing is ever written to
\* the pixel, by connectWiFi() or by updateLED().
C12_LedFollowsThresholds ==
    /\ (TickDone /\ Called("updateLED") /\ lastTimestamp # 0 /\ useLed)
         => led = C12_Colour
    /\ ~useLed => led = "none"

\* C12 witness: updateLED() ran with bg equal to highUrgent and the pixel
\* went yellow
C12_Witness ==
    /\ TickDone
    /\ Called("updateLED")
    /\ useLed
    /\ lastTimestamp # 0
    /\ bg = highUrgent * 10
    /\ led = "yellow"

\* with use_led false, connectWiFi() and updateLED() have run and the pixel
\* was never written
C12_LedDisabled ==
    /\ TickDone
    /\ Called("updateLED")
    /\ lastTimestamp # 0
    /\ ~useLed
    /\ wifiBegun
    /\ led = "none"

\* a trend code in lower case
C13_Spelling(t) == [i \in 1..Len(t) |-> tolower(t[i])]

\* the rotation C13 names for a trend code, in whatever case it is spelled
C13_Rotation(t) ==
    LET c == C13_Spelling(t)
    IN  CASE c \in {C13_Spelling(S_DoubleUp), C13_Spelling(S_SingleUp)} -> 0
          [] c = C13_Spelling(S_FortyFiveUp) -> 45
          [] c = C13_Spelling(S_Flat) -> 90
          [] c = C13_Spelling(S_FortyFiveDown) -> 135
          [] c \in {C13_Spelling(S_SingleDown), C13_Spelling(S_DoubleDown)} -> 180
          [] OTHER -> -1

\* the codes C13 gives the second glyph: DoubleUp and DoubleDown, in every
\* spelling the rotation lookup accepts
C13_DoubleCode(t) ==
    C13_Spelling(t) \in {C13_Spelling(S_DoubleUp), C13_Spelling(S_DoubleDown)}

\* C13: a drawn reading has the arrow at the rotation of its trend code
\* (DoubleUp, SingleUp 0; FortyFiveUp 45; Flat 90; FortyFiveDown 135;
\* SingleDown, DoubleDown 180; any other code no arrow), and the second,
\* offset glyph exactly for DoubleUp and DoubleDown, in every spelling of
\* them the rotation lookup accepts.
C13_ArrowAndSecondGlyph ==
    DrewReading =>
        /\ screen.arrow = C13_Rotation(trend)
        /\ screen.double <=> (screen.arrow # -1 /\ C13_DoubleCode(trend))

\* the rotation half of C13 alone
C13_RotationOnly == DrewReading => screen.arrow = C13_Rotation(trend)

\* the second glyph for the codes spelled as Nightscout spells them
C13_DoubleAsSpelled ==
    (DrewReading /\ trend \in {S_Flat, S_DoubleUp, S_SingleUp, S_FortyFiveUp,
                                S_FortyFiveDown, S_SingleDown, S_DoubleDown,
                                S_NONE})
    => (screen.double <=> trend \in {S_DoubleUp, S_DoubleDown})

\* C14: while no reading has been accepted (lastTimestamp and lastUpdate still
\* hold 0), the staleness test (millis() - lastUpdate) > 13 minutes is true at
\* every local time at which loop() comes to its render step, also less than
\* 13 minutes after boot.
C14_NeverAcceptedIsStale ==
    (pc = "render" /\ lastTimestamp = 0 /\ lastUpdate = 0)
    => isStale(millis(now), lastUpdate)

\* the test is true once 13 minutes have passed since boot
C14_StaleLater ==
    (pc = "render" /\ lastTimestamp = 0 /\ lastUpdate = 0
     /\ now < Pow32 /\ now > Ms(780000))
    => isStale(millis(now), lastUpdate)

\* connectWiFi() is running
InConnectWiFi == pc \in {"connect", "wait", "nossid"}

\* C15: connectWiFi() always terminates: with an SSID it waits at most 30
\* times, 500 ms apart, and then returns, connected or not; with an empty SSID
\* it returns without calling WiFi.begin(); and the tick that called it ends.
C15_ConnectTerminates ==
    /\ [](retries <= MaxRetries)
    /\ [](pc = "wait" => Elapsed32(millis(now), currentTime)
                            = Ms(1000) + retries * Ms(500))
    /\ [](wifiSSID = "" => ~wifiBegun)
    /\ [](InConnectWiFi => <>TickDone)

\* C15 witness: connectWiFi() has returned after 30 waits without a
\* connection, 1000 + 30 * 500 + 5000 ms after the tick began, and the tick
\* is at its end
C15_Witness ==
    /\ TickDone
    /\ calls = <<"connectWiFi:failed">>
    /\ wifiBegun
    /\ ~wifi
    /\ Elapsed32(millis(now), currentTime)
         = Ms(1000) + MaxRetries * Ms(500) + Ms(5000)

\* connectWiFi() has returned connected after the 30th wait
C15_JoinedAtLastWait ==
    /\ TickDone
    /\ Called("connectWiFi:connected")
    /\ lastDataFetchTime = currentTime
    /\ now = currentTime + Ms(1000) + MaxRetries * Ms(500) + Ms(2000) + Ms(200)

\* connectWiFi() has returned at once for want of an SSID
C15_NoSSID ==
    /\ TickDone
    /\ calls = <<"connectWiFi:failed">>
    /\ wifiSSID = ""
    /\ ~wifiBegun
    /\ Elapsed32(millis(now), currentTime) = Ms(1000) + Ms(5000)

\* C16: when readConfig() has failed (config.json cannot be opened or does
\* not parse) the program is halted for good: loop() has never begun, no
\* connection was attempted, no poll has run and nothing was rendered.
C16_ConfigFailureHalts ==
    ConfigFailed(bootResult)
    => /\ pc = "halted"
       /\ ticks = 0
       /\ ~wifiBegun /\ ~wifi
       /\ calls = << >>
       /\ statusResp = NoStatus /\ dataResp = NoData
       /\ timers = <<0, 0, 0>>
       /\ thresholds = <<55, 70, 180, 240>>
       /\ reading = <<0, 0, EmptyStr, 0, 0>>
       /\ screen = MessageFrame
       /\ led = "none"

\* C16 witness: config.json did not parse and the program sits in while(1)
\* after the error message
C16_Witness ==
    /\ bootResult = "config_parse_failed"
    /\ pc = "halted"
    /\ now = Ms(500) + Ms(3000)

\* this step is the render of a tick
RenderStep == pc = "render" /\ Called("updateDisplay")'

\* C17: once a reading has been accepted and no newer one comes, a render that
\* draws it stale (grey, struck through) eventually happens as long as loop()
\* keeps ticking, whatever the polls and the connection do meanwhile.  (The
\* server of these runs never sends a second reading, so every reading
\* accepted grows older than 13 minutes.)
C17_StaleEventuallyDrawn ==
    [](lastTimestamp # 0 => <>(DrewReading /\ screen.stale))

\* C18: a render that finds lastTimestamp at 0 (no reading accepted yet)
\* draws the waiting message and nothing else, and its updateLED() leaves the
\* pixel as it was, whatever the polls have answered so far.
C18_WaitingUntilAccepted ==
    [][ (RenderStep /\ lastTimestamp = 0)
        => /\ screen' = WaitingFrame
           /\ led' = led ]_vars

\* C18 witness: a poll has answered with a new mills and a value <= 30, which
\* left its value in bg, and the render of that tick drew the waiting message
\* and left the pixel as connectWiFi() had left it
C18_Witness ==
    /\ TickDone
    /\ Rendered
    /\ Called("updateLED")
    /\ lastTimestamp = 0
    /\ dataResp.kind = "ok"
    /\ dataResp.mills # 0
    /\ bg = dataResp.mgdl
    /\ bg # 0
    /\ useLed
    /\ screen = WaitingFrame
    /\ led = "off"

\* a poll answered with mills 0 and a plausible value, and the render of that
\* tick drew the waiting message
C18_MillsZero ==
    /\ TickDone
    /\ Rendered
    /\ lastTimestamp = 0
    /\ dataResp.kind = "ok"
    /\ dataResp.mills = 0
    /\ dataResp.mgdl > 300
    /\ bg # dataResp.mgdl
    /\ screen = WaitingFrame

\* C19, first half: a reading stored less than 13 minutes before it is drawn
\* is not drawn stale, also when millis() has wrapped in between.  (The time
\* since the reading was stored is Elapsed32 when it is less than a full
\* round of the counter.)
C19_FreshNotStale ==
    (DrewReading /\ lastUpdate > 0
     /\ Elapsed32(millis(now), millis(lastUpdate)) < STALE_DATA_THRESHOLD_MS)
    => ~screen.stale

\* C19, second half: a poll or render whose interval has passed since its
\* timer was set is due, also when millis() has wrapped in between.
C19_NotPostponed ==
    /\ (pc = "status" /\ Elapsed32(currentTime, millis(lastStatusFetchTime))
                             >= STATUS_FETCH_INTERVAL_MS) => StatusDue
    /\ (pc = "data" /\ Elapsed32(currentTime, millis(lastDataFetchTime))
                           >= DATA_FETCH_INTERVAL_MS) => DataDue
    /\ (pc = "render" /\ Elapsed32(currentTime, millis(lastDisplayUpdateTime))
                             >= DISPLAY_UPDATE_INTERVAL_MS) => DisplayDue

\* C19: the elapsed-time tests stay correct when the 32-bit millis() wraps to
\* 0 while the stored times are 64-bit: a reading stored less than 13 minutes
\* before a render is never drawn stale, and no poll or render is postponed
\* beyond its interval.
C19_WrapSafe == C19_FreshNotStale /\ C19_NotPostponed
====
